---------------------------- MODULE Spec2Model ----------------------------
(***************************************************************************)
(* The collisions dashboard of src/app.py as a state machine.              *)
(*                                                                         *)
(* A page run is the script executed top to bottom: the cached load_data   *)
(* (read, canonicalise the column names, detect date/time, rename          *)
(* latitude/longitude, the injury column and the contributing-factor       *)
(* columns, drop and coerce the coordinates), then the five panels.  A     *)
(* rerun is triggered by a widget change and executes the script again.    *)
(*                                                                         *)
(* Column names and cells are strings, as in the CSV.  A table is a record *)
(* [cols, rows]: cols the sequence of column labels (labels may repeat, as *)
(* in a pandas Index), rows a sequence of rows, each a sequence of cells   *)
(* aligned with cols.                                                      *)
(***************************************************************************)
EXTENDS Integers, Sequences, FiniteSets, TLC

(***************************************************************************)
(* Bounds of the model.                                                    *)
(***************************************************************************)
MaxCols == 2

MaxRows == 2

MaxReruns == 1

(***************************************************************************)
(* Program constants.                                                      *)
(***************************************************************************)
NROWS == 50000

TOP_FACTORS == 15

TOP_HOURLY_FACTORS == 3

DEFAULT_MIN_INJURIES == 1

DEFAULT_HOUR == 17

\* A missing value (NaN / NaT / None in a cell).
NaN == "NaN"

\* Python None for the *_col locals (also falsy, like the empty string).
None == ""

(***************************************************************************)
(* Strings.                                                                *)
(***************************************************************************)
\* Python's `sub in s`.
Contains(sub, s) ==
    \E i \in 1..(Len(s) - Len(sub) + 1) : SubSeq(s, i, i + Len(sub) - 1) = sub

UPPER == "ABCDEFGHIJKLMNOPQRSTUVWXYZ"

LOWER == "abcdefghijklmnopqrstuvwxyz"

DIGITS == "0123456789"

Char(s, i) == SubSeq(s, i, i)

IsDigit(c) == \E i \in 1..Len(DIGITS) : Char(DIGITS, i) = c

\* str.lower() of one character.
LowerChar(c) ==
    IF \E i \in 1..Len(UPPER) : Char(UPPER, i) = c
    THEN Char(LOWER, CHOOSE i \in 1..Len(UPPER) : Char(UPPER, i) = c)
    ELSE c

\* A character the regular expression \w matches.
IsWordChar(c) ==
    \/ c = "_"
    \/ IsDigit(c)
    \/ \E i \in 1..Len(LOWER) : Char(LOWER, i) = c \/ Char(UPPER, i) = c

RECURSIVE MapChars(_, _)
\* One pass of line 20 over the characters of s: str.lower(), replace(' ', '_')
\* or replace(r'[^\w]', '').
MapChars(s, pass) ==
    IF s = "" THEN ""
    ELSE LET c == Char(s, 1)
             d == CASE pass = "lower" -> LowerChar(c)
                    [] pass = "space" -> (IF c = " " THEN "_" ELSE c)
                    [] pass = "word"  -> (IF IsWordChar(c) THEN c ELSE "")
         IN  d \o MapChars(Tail(s), pass)

RECURSIVE Strip(_)
\* str.strip(): leading and trailing blanks removed.
Strip(s) ==
    IF s = "" THEN ""
    ELSE IF Char(s, 1) = " " THEN Strip(Tail(s))
    ELSE IF Char(s, Len(s)) = " " THEN Strip(SubSeq(s, 1, Len(s) - 1))
    ELSE s

\* Line 20: strip, lower, ' ' -> '_', drop every non-word character.
CleanName(s) == MapChars(MapChars(MapChars(Strip(s), "lower"), "space"), "word")

RECURSIVE ParseNat(_)
\* The number a string of digits denotes.
ParseNat(s) ==
    IF s = "" THEN 0
    ELSE 10 * ParseNat(SubSeq(s, 1, Len(s) - 1))
         + ((CHOOSE i \in 1..Len(DIGITS) : Char(DIGITS, i) = Char(s, Len(s))) - 1)

AllDigits(s) == s # "" /\ \A i \in 1..Len(s) : IsDigit(Char(s, i))

\* What pd.to_numeric parses: [-]digits[.digits].
IsNumeric(s) ==
    LET body == IF s # "" /\ Char(s, 1) = "-" THEN Tail(s) ELSE s
        dots == {i \in 1..Len(body) : Char(body, i) = "."}
    IN  \/ AllDigits(body)
        \/ /\ Cardinality(dots) = 1
           /\ \E i \in dots : /\ AllDigits(SubSeq(body, 1, i - 1))
                              /\ AllDigits(SubSeq(body, i + 1, Len(body)))

\* pd.to_numeric(errors='coerce') of one cell.
ToNumeric(c) == IF c # NaN /\ IsNumeric(c) THEN c ELSE NaN

\* The whole part of a numeric cell (int(x) of a count).
IntVal(c) ==
    LET neg  == Char(c, 1) = "-"
        body == IF neg THEN Tail(c) ELSE c
        dots == {i \in 1..Len(body) : Char(body, i) = "."}
        whole == IF dots = {} THEN body
                 ELSE SubSeq(body, 1, (CHOOSE i \in dots : TRUE) - 1)
    IN  IF neg THEN 0 - ParseNat(whole) ELSE ParseNat(whole)

\* "YYYY-MM-DD": a calendar date.
IsDate(s) ==
    /\ Len(s) = 10
    /\ Char(s, 5) = "-" /\ Char(s, 8) = "-"
    /\ AllDigits(SubSeq(s, 1, 4)) /\ AllDigits(SubSeq(s, 6, 7))
    /\ AllDigits(SubSeq(s, 9, 10))
    /\ ParseNat(SubSeq(s, 6, 7)) \in 1..12
    /\ ParseNat(SubSeq(s, 9, 10)) \in 1..31

\* "HH:MM": a time of day.
IsTime(s) ==
    /\ Len(s) = 5
    /\ Char(s, 3) = ":"
    /\ AllDigits(SubSeq(s, 1, 2)) /\ AllDigits(SubSeq(s, 4, 5))
    /\ ParseNat(SubSeq(s, 1, 2)) \in 0..23
    /\ ParseNat(SubSeq(s, 4, 5)) \in 0..59

\* pd.to_datetime(errors='coerce') of one string: the timestamp in the form
\* "YYYY-MM-DD HH:MM", or NaT.  A date alone is midnight.
ToDatetime(s) ==
    IF IsDate(s) THEN s \o " 00:00"
    ELSE IF Len(s) = 16 /\ IsDate(SubSeq(s, 1, 10)) /\ Char(s, 11) = " "
            /\ IsTime(SubSeq(s, 12, 16)) THEN s
    ELSE NaN

\* Series.astype(str) of one cell: a missing value prints as 'nan'.
AsStr(c) == IF c = NaN THEN "nan" ELSE c

\* .dt.date and .dt.hour of a timestamp cell.
DtDate(c) == IF c = NaN THEN NaN ELSE SubSeq(c, 1, 10)

DtHour(c) == IF c = NaN THEN NaN ELSE SubSeq(c, 12, 13)


(***************************************************************************)
(* Tables.                                                                 *)
(***************************************************************************)
\* The positions of the columns labelled name (a label may repeat).
Positions(cols, name) == {j \in 1..Len(cols) : cols[j] = name}

\* `name in data.columns`.
HasCol(t, name) == Positions(t.cols, name) # {}

\* data[name] is a DataFrame, not a Series, when the label repeats.
IsDup(t, name) == Cardinality(Positions(t.cols, name)) > 1

\* The cells of data[name], by row, for a label that does not repeat.
Column(t, name) ==
    LET j == CHOOSE k \in Positions(t.cols, name) : TRUE
    IN  [r \in 1..Len(t.rows) |-> t.rows[r][j]]

\* data.rename(columns={old: new}): every column labelled old is relabelled.
Rename(t, old, new) ==
    [t EXCEPT !.cols = [j \in 1..Len(t.cols) |->
                            IF t.cols[j] = old THEN new ELSE t.cols[j]]]

\* data.rename(columns=mapping).
RenameAll(t, mapping) ==
    [t EXCEPT !.cols = [j \in 1..Len(t.cols) |->
                            IF t.cols[j] \in DOMAIN mapping
                            THEN mapping[t.cols[j]] ELSE t.cols[j]]]

\* data[name] = vals: the column is replaced where it is, or appended.
SetColumn(t, name, vals) ==
    IF HasCol(t, name)
    THEN [t EXCEPT !.rows = [r \in 1..Len(t.rows) |->
                                [j \in 1..Len(t.cols) |->
                                    IF t.cols[j] = name THEN vals[r]
                                    ELSE t.rows[r][j]]]]
    ELSE [cols |-> Append(t.cols, name),
          rows |-> [r \in 1..Len(t.rows) |-> Append(t.rows[r], vals[r])]]

\* data.dropna(subset=names): rows with a missing value in a named column go.
DropNa(t, names) ==
    LET Keep(row) == \A j \in 1..Len(t.cols) : t.cols[j] \in names => row[j] # NaN
    IN  [t EXCEPT !.rows = SelectSeq(t.rows, Keep)]

\* The default NA strings of pd.read_csv that the model's cells can hold.
NA_VALUES == {"", "NaN", "nan", "NA", "N/A", "null"}

\* pd.read_csv(DATA_URL, nrows=nrows): at most nrows rows, NA strings missing.
ReadCsv(src, nrows) ==
    LET n == IF Len(src.rows) < nrows THEN Len(src.rows) ELSE nrows
    IN  [cols |-> src.cols,
         rows |-> [r \in 1..n |-> [j \in 1..Len(src.cols) |->
                      IF src.rows[r][j] \in NA_VALUES THEN NaN
                      ELSE src.rows[r][j]]]]

(***************************************************************************)
(* The schema heuristics of load_data.                                     *)
(***************************************************************************)
RECURSIVE FirstMatch(_, _, _, _)
\* for col in data.columns: if sub in col and not found: found = col
FirstMatch(cols, sub, j, found) ==
    IF j > Len(cols) THEN found
    ELSE IF Contains(sub, cols[j]) /\ found = None
         THEN FirstMatch(cols, sub, j + 1, cols[j])
         ELSE FirstMatch(cols, sub, j + 1, found)

RECURSIVE InjuryScan(_, _, _)
\* The loop of lines 59-64: a column with 'injured' and 'person' ends the scan;
\* a column with 'injured' alone is noted and the scan goes on.
InjuryScan(cols, j, found) ==
    IF j > Len(cols) THEN found
    ELSE IF Contains("injured", cols[j]) /\ Contains("person", cols[j])
         THEN cols[j]
    ELSE IF Contains("injured", cols[j])
         THEN InjuryScan(cols, j + 1, cols[j])
    ELSE InjuryScan(cols, j + 1, found)

\* Lines 76-83: the first i in 1..5 with 'vehicle_i' in col, or 0.
VehicleIndex(col) ==
    LET hits == {i \in 1..5 : Contains("vehicle_" \o Char(DIGITS, i + 1), col)}
    IN  IF hits = {} THEN 0 ELSE CHOOSE i \in hits : \A k \in hits : i <= k

FactorName(i) == "contributing_factor_vehicle_" \o Char(DIGITS, i + 1)

\* The dict as it would be if it were keyed by the target name: of the source
\* columns of one vehicle index only the last stays in it.
FactorColumnsLastWins(cols) ==
    LET Match(k) == /\ Contains("contributing_factor", cols[k])
                    /\ VehicleIndex(cols[k]) \in {1, 2}
        keys == {cols[j] : j \in {k \in 1..Len(cols) :
                        /\ Match(k)
                        /\ ~\E m \in (k + 1)..Len(cols) :
                              /\ Match(m)
                              /\ VehicleIndex(cols[m]) = VehicleIndex(cols[k])}}
    IN  [c \in keys |-> FactorName(VehicleIndex(c))]

\* Lines 72-83: the dict factor_columns, keyed by the source column.
FactorColumns(cols) ==
    LET keys == {cols[j] : j \in {k \in 1..Len(cols) :
                        /\ Contains("contributing_factor", cols[k])
                        /\ VehicleIndex(cols[k]) \in {1, 2}}}
    IN  [c \in keys |-> FactorName(VehicleIndex(c))]

\* Lines 34-40: the cells of the new datetime column.  With a repeated time
\* label the concatenation fails and the except branch parses the date alone.
DatetimeCells(t, dcol, tcol) ==
    LET d == Column(t, dcol)
    IN  IF tcol # None /\ ~IsDup(t, tcol)
        THEN LET tm == Column(t, tcol)
             IN  [r \in 1..Len(t.rows) |->
                     ToDatetime(AsStr(d[r]) \o " " \o AsStr(tm[r]))]
        ELSE [r \in 1..Len(t.rows) |-> ToDatetime(d[r])]

\* Line 69: to_numeric(errors='coerce').fillna(0).
InjuredCells(t) ==
    LET v == Column(t, "injured_persons")
    IN  [r \in 1..Len(t.rows) |->
            IF ToNumeric(v[r]) = NaN THEN "0" ELSE ToNumeric(v[r])]

\* Lines 92-95: drop the rows without coordinates, then coerce to numeric.
DropAndCoerce(t) ==
    LET kept == DropNa(t, {"latitude", "longitude"})
        lat  == Column(kept, "latitude")
        t1   == SetColumn(kept, "latitude",
                          [r \in 1..Len(kept.rows) |-> ToNumeric(lat[r])])
        lon  == Column(t1, "longitude")
    IN  SetColumn(t1, "longitude",
                  [r \in 1..Len(t1.rows) |-> ToNumeric(lon[r])])

(***************************************************************************)
(* The inputs: the CSV files the dashboard is started on.                  *)
(***************************************************************************)
\* Header names as they stand in a CSV.  read_csv makes the raw names of one
\* file distinct; their canonical forms may still coincide.
RawNames ==
    {"CRASH DATE", "CRASH TIME", "LATITUDE", "LAT", "Lat ", "LONGITUDE",
     "NUMBER OF PERSONS INJURED", "NUMBER OF CYCLIST INJURED",
     "NUMBER OF MOTORIST INJURED", "CONTRIBUTING FACTOR VEHICLE 1",
     "CONTRIBUTING FACTOR VEHICLE 1 CODE", "CONTRIBUTING FACTOR VEHICLE 2",
     "CONTRIBUTING FACTOR VEHICLE 3", "ZIP CODE"}

\* Every header of 1..MaxCols distinct raw names, in every order.
Headers ==
    UNION {{h \in [1..n -> RawNames] : \A i, j \in 1..n : h[i] = h[j] => i = j}
           : n \in 1..MaxCols}

\* The cells a column of that name is given.
CellsFor(name) ==
    CASE Contains("DATE", name)    -> {"2021-01-05"}
      [] Contains("TIME", name)    -> {"14:30", "x"}
      [] Contains("LAT", name) \/ Contains("Lat", name) -> {"40.7", "x", ""}
      [] Contains("LON", name)     -> {"-73.9"}
      [] Contains("INJURED", name) -> {"0", "2"}
      [] Contains("FACTOR", name)  -> {"", "UNKNOWN", "Unsafe Speed"}
      [] OTHER                     -> {"10001"}

\* The cell of a well-formed record.
DefaultCell(name) ==
    CASE Contains("DATE", name)    -> "2021-01-05"
      [] Contains("TIME", name)    -> "14:30"
      [] Contains("LAT", name) \/ Contains("Lat", name) -> "40.7"
      [] Contains("LON", name)     -> "-73.9"
      [] Contains("INJURED", name) -> "2"
      [] Contains("FACTOR", name)  -> "Unsafe Speed"
      [] OTHER                     -> "10001"

\* Any header, one well-formed record.
SchemaTables ==
    {[cols |-> h, rows |-> <<[j \in 1..Len(h) |-> DefaultCell(h[j])]>>]
     : h \in Headers}

\* Headers whose records vary.
Fixtures ==
    {<<"LATITUDE", "LONGITUDE", "NUMBER OF PERSONS INJURED">>,
     <<"CRASH DATE", "CRASH TIME", "CONTRIBUTING FACTOR VEHICLE 1">>,
     <<"DATE", "CONTRIBUTING FACTOR VEHICLE 1", "CONTRIBUTING FACTOR VEHICLE 2">>}

RECURSIVE RowsOf(_)
RowsOf(h) ==
    IF h = <<>> THEN {<<>>}
    ELSE {<<c>> \o r : c \in CellsFor(Head(h)), r \in RowsOf(Tail(h))}

\* A fixture header with 0..MaxRows records.
RowTables ==
    UNION {{[cols |-> h, rows |-> rs]
            : rs \in UNION {[1..n -> RowsOf(h)] : n \in 0..MaxRows}}
           : h \in Fixtures}

\* The record of the dataset the dashboard was written for.
ScenarioTable ==
    [cols |-> <<"CRASH DATE", "CRASH TIME", "LATITUDE", "LONGITUDE",
                "NUMBER OF PERSONS INJURED", "CONTRIBUTING FACTOR VEHICLE 1",
                "CONTRIBUTING FACTOR VEHICLE 2">>,
     rows |-> <<<<"2021-01-05", "14:30", "40.7", "-73.9", "2",
                  "Driver Inattention", "Unspecified">>>>]

\* A header two of whose names have one canonical form.
CollidingTable ==
    [cols |-> <<"LAT", "Lat ", "LONGITUDE">>,
     rows |-> <<<<"40.7", "40.7", "-73.9">>>>]

\* More factor values than the hourly ranking keeps, some equally frequent.
RankingTable ==
    [cols |-> <<"CRASH DATE", "CONTRIBUTING FACTOR VEHICLE 1">>,
     rows |-> <<<<"2021-01-05", "Unsafe Speed">>, <<"2021-01-05", "Unsafe Speed">>,
                <<"2021-01-05", "Alcohol">>, <<"2021-01-05", "Fatigue">>,
                <<"2021-01-05", "">>>>]

RawTables ==
    SchemaTables \cup RowTables \cup {ScenarioTable, CollidingTable, RankingTable}

\* Line 20, name by name (computed once per header name of the inputs).
Canonical == [n \in UNION {{t.cols[j] : j \in 1..Len(t.cols)} : t \in RawTables}
                 |-> CleanName(n)]

\* Line 20 on the whole header.
CleanColumns(t) ==
    [t EXCEPT !.cols = [j \in 1..Len(t.cols) |-> Canonical[t.cols[j]]]]

\* The hours the hour slider is moved to (of its range 0..23).
HourChoices == {14, 17}

(***************************************************************************)
(* State.                                                                  *)
(***************************************************************************)
VARIABLES
    source,           \* the CSV file at DATA_URL
    cache,            \* st.cache_data: row limit -> the table load_data returned
    body_runs,        \* row limit -> executions of the body of load_data
    data,             \* the script's variable `data`
    cleaned_columns,  \* "Cleaned columns": the header after line 20
    date_col, time_col, lat_col, lon_col, injury_col, factor_columns,
    pc,               \* where the script stands
    error,            \* the place an exception was raised, or ""
    ui,               \* the widgets' values, kept across reruns
    out,              \* panel -> what it has emitted in this run
    view,             \* what the charts of this run show
    reruns            \* reruns so far

locals == <<date_col, time_col, lat_col, lon_col, injury_col, factor_columns>>

loader == <<source, cache, body_runs, cleaned_columns>>

page == <<ui, out, view, reruns>>

vars == <<source, cache, body_runs, data, cleaned_columns, date_col, time_col,
          lat_col, lon_col, injury_col, factor_columns, pc, error, ui, out,
          view, reruns>>

Panels == {"map", "time", "factor", "heatmap", "factor_hour"}

NoTable == [cols |-> <<>>, rows |-> <<>>]

NoView == [map_rows |-> 0, map_max |-> 0, hour_count |-> 0, options |-> <<>>,
           ranking |-> {}, time_options |-> <<>>, top |-> {}, kept |-> <<>>]

Init ==
    /\ source \in RawTables
    /\ cache = <<>>
    /\ body_runs = [k \in {NROWS} |-> 0]
    /\ data = NoTable
    /\ cleaned_columns = <<>>
    /\ date_col = None /\ time_col = None /\ lat_col = None /\ lon_col = None
    /\ injury_col = None /\ factor_columns = <<>>
    /\ pc = "start"
    /\ error = ""
    /\ ui = [min_injuries |-> DEFAULT_MIN_INJURIES, hour |-> DEFAULT_HOUR,
             selected_factor |-> 1, time_factor |-> 1]
    /\ out = [p \in Panels |-> "pending"]
    /\ view = NoView
    /\ reruns = 0

\* An exception ends the run: nothing is returned, nothing more is rendered.
Raise(where) == pc' = "failed" /\ error' = where

(***************************************************************************)
(* load_data, behind st.cache_data.                                        *)
(***************************************************************************)
\* Lines 100-102 and 11-22: the call; on a miss the body starts.
CallLoadData ==
    /\ pc = "start"
    /\ out' = [p \in Panels |-> "pending"]
    /\ view' = NoView
    /\ error' = ""
    /\ IF NROWS \in DOMAIN cache
       THEN /\ data' = cache[NROWS]
            /\ pc' = "map"
            /\ UNCHANGED <<body_runs, cleaned_columns, locals>>
       ELSE /\ body_runs' = [body_runs EXCEPT ![NROWS] = @ + 1]
            /\ data' = CleanColumns(ReadCsv(source, NROWS))
            /\ cleaned_columns' = data'.cols
            /\ date_col' = None /\ time_col' = None /\ lat_col' = None
            /\ lon_col' = None /\ injury_col' = None /\ factor_columns' = <<>>
            /\ pc' = "datetime"
    /\ UNCHANGED <<source, cache, ui, reruns>>

\* Lines 24-40.
DetectDateTime ==
    /\ pc = "datetime"
    /\ date_col' = FirstMatch(data.cols, "date", 1, None)
    /\ time_col' = FirstMatch(data.cols, "time", 1, None)
    /\ IF date_col' = None
       THEN data' = data /\ pc' = "latlon" /\ error' = error
       ELSE IF IsDup(data, date_col')
       THEN data' = data /\ Raise("to_datetime")
       ELSE /\ data' = SetColumn(data, "datetime",
                                 DatetimeCells(data, date_col', time_col'))
            /\ pc' = "latlon" /\ error' = error
    /\ UNCHANGED <<loader, lat_col, lon_col, injury_col, factor_columns, page>>

\* Lines 42-55.
RenameLatLon ==
    /\ pc = "latlon"
    /\ lat_col' = FirstMatch(data.cols, "lat", 1, None)
    /\ lon_col' = FirstMatch(data.cols, "lon", 1, None)
    /\ LET t1 == IF lat_col' # None THEN Rename(data, lat_col', "latitude")
                 ELSE data
       IN  data' = IF lon_col' # None THEN Rename(t1, lon_col', "longitude")
                   ELSE t1
    /\ pc' = "injury"
    /\ UNCHANGED <<loader, date_col, time_col, injury_col, factor_columns,
                   error, page>>

\* Lines 57-69.
FindInjury ==
    /\ pc = "injury"
    /\ injury_col' = InjuryScan(data.cols, 1, None)
    /\ IF injury_col' = None
       THEN data' = data /\ pc' = "factors" /\ error' = error
       ELSE LET t1 == Rename(data, injury_col', "injured_persons")
            IN  IF IsDup(t1, "injured_persons")
                THEN data' = t1 /\ Raise("to_numeric injured_persons")
                ELSE /\ data' = SetColumn(t1, "injured_persons",
                                          InjuredCells(t1))
                     /\ pc' = "factors" /\ error' = error
    /\ UNCHANGED <<loader, date_col, time_col, lat_col, lon_col,
                   factor_columns, page>>

\* Lines 71-88.
RenameFactors ==
    /\ pc = "factors"
    /\ factor_columns' = FactorColumns(data.cols)
    /\ data' = RenameAll(data, factor_columns')
    /\ pc' = "coords"
    /\ UNCHANGED <<loader, date_col, time_col, lat_col, lon_col, injury_col,
                   error, page>>

\* Lines 90-98, and the store of the returned table by st.cache_data.
DropCoerceReturn ==
    /\ pc = "coords"
    /\ IF HasCol(data, "latitude") /\ HasCol(data, "longitude")
       THEN IF IsDup(data, "latitude") \/ IsDup(data, "longitude")
            THEN /\ data' = DropNa(data, {"latitude", "longitude"})
                 /\ Raise("to_numeric coordinates")
                 /\ cache' = cache
            ELSE /\ data' = DropAndCoerce(data)
                 /\ cache' = (NROWS :> data') @@ cache
                 /\ pc' = "map" /\ error' = error
       ELSE /\ data' = data
            /\ cache' = (NROWS :> data') @@ cache
            /\ pc' = "map" /\ error' = error
    /\ UNCHANGED <<source, body_runs, cleaned_columns, locals, page>>

(***************************************************************************)
(* The panels.                                                             *)
(***************************************************************************)
Range(f) == {f[x] : x \in DOMAIN f}

\* The largest of a nonempty set of integers.
MaxOf(S) == CHOOSE m \in S : \A n \in S : n <= m

\* Series.value_counts(): the number of cells with value v.
Count(vals, v) == Cardinality({r \in DOMAIN vals : vals[r] = v})

\* value_counts().head(k): k most frequent values; pandas leaves the order of
\* equally frequent values open, so every admissible choice is a result.
TopK(vals, k) ==
    LET V == Range(vals)
        n == IF Cardinality(V) < k THEN Cardinality(V) ELSE k
    IN  {S \in SUBSET V :
            /\ Cardinality(S) = n
            /\ \A a \in S, b \in V \ S : Count(vals, a) >= Count(vals, b)}

\* Line 113: int(data['injured_persons'].max()).
MaxInjured(t) == MaxOf({IntVal(c) : c \in Range(Column(t, "injured_persons"))})

\* Line 116: the rows shown on the map.
MapRows(t, min_injuries) ==
    LET inj == CHOOSE j \in Positions(t.cols, "injured_persons") : TRUE
        lat == CHOOSE j \in Positions(t.cols, "latitude") : TRUE
        lon == CHOOSE j \in Positions(t.cols, "longitude") : TRUE
        Keep(row) == /\ IntVal(row[inj]) >= min_injuries
                     /\ row[lat] # NaN /\ row[lon] # NaN
    IN  SelectSeq(t.rows, Keep)

\* Lines 125-131: the columns the warning names.
MapMissing(t) ==
    {c \in {"injured_persons", "latitude", "longitude"} : ~HasCol(t, c)}

\* Lines 111-132.
MapPanel ==
    /\ pc = "map"
    /\ IF MapMissing(data) = {}
       THEN IF data.rows = <<>>
            THEN /\ Raise("int(nan)")
                 /\ out' = [out EXCEPT !["map"] = "error"]
                 /\ view' = view
            ELSE IF MaxInjured(data) < DEFAULT_MIN_INJURIES
            THEN /\ Raise("slider")
                 /\ out' = [out EXCEPT !["map"] = "error"]
                 /\ view' = view
            ELSE LET shown == MapRows(data, ui.min_injuries)
                 IN  /\ out' = [out EXCEPT !["map"] =
                                   IF shown # <<>> THEN "chart" ELSE "info"]
                     /\ view' = [view EXCEPT !.map_rows = Len(shown),
                                             !.map_max = MaxInjured(data)]
                     /\ pc' = "time" /\ error' = error
       ELSE /\ out' = [out EXCEPT !["map"] = "warning"]
            /\ view' = view
            /\ pc' = "time" /\ error' = error
    /\ UNCHANGED <<loader, data, locals, ui, reruns>>

\* The panel as it would be if line 139 assigned the dates to `datetime`.
TimeSeriesOverwritesDatetime(t) ==
    LET dt == Column(t, "datetime")
        t1 == SetColumn(t, "datetime", [r \in 1..Len(t.rows) |-> DtDate(dt[r])])
    IN  SetColumn(t1, "hour", [r \in 1..Len(t.rows) |-> DtHour(dt[r])])

\* Lines 139 and 160: the two columns the panel assigns to `data`.
TimeSeriesWrites(t) ==
    LET dt == Column(t, "datetime")
        t1 == SetColumn(t, "date", [r \in 1..Len(t.rows) |-> DtDate(dt[r])])
    IN  SetColumn(t1, "hour", [r \in 1..Len(t.rows) |-> DtHour(dt[r])])

\* Line 155: the rows of the selected hour.
HourCount(t, hour) ==
    LET dt == Column(t, "datetime")
    IN  Cardinality({r \in 1..Len(t.rows) :
                        dt[r] # NaN /\ ParseNat(DtHour(dt[r])) = hour})

\* Lines 137-169.
TimePanel ==
    /\ pc = "time"
    /\ IF HasCol(data, "datetime")
       THEN /\ data' = TimeSeriesWrites(data)
            /\ out' = [out EXCEPT !["time"] = "chart"]
            /\ view' = [view EXCEPT !.hour_count = HourCount(data, ui.hour)]
       ELSE /\ data' = data
            /\ out' = [out EXCEPT !["time"] = "info"]
            /\ view' = view
    /\ pc' = "factor"
    /\ UNCHANGED <<loader, locals, error, ui, reruns>>

\* Lines 179-183.
AvailableCols(t) ==
    SelectSeq(<<FactorName(1), FactorName(2)>>, LAMBDA c : HasCol(t, c))

\* Line 191: fillna('Unknown').replace('', 'Unspecified').
FactorData(t, col) ==
    LET v == Column(t, col)
    IN  [r \in 1..Len(t.rows) |->
            IF v[r] = NaN THEN "Unknown"
            ELSE IF v[r] = "" THEN "Unspecified" ELSE v[r]]

\* Line 198: the values kept out of the chart.
Excluded == {"Unspecified", "Unknown", "unspecified", "unknown"}

\* Lines 194-198: the bars of the chart, for one outcome of head(15).
FactorRanking(vals, top) ==
    {[factor |-> v, count |-> Count(vals, v)] : v \in top \ Excluded}

\* A selectbox value: the stored choice, or the first option.
Choice(options, i) == IF i \in 1..Len(options) THEN options[i] ELSE options[1]

\* Lines 175-231.
FactorPanel ==
    /\ pc = "factor"
    /\ LET avail == AvailableCols(data)
       IN  IF avail = <<>>
           THEN /\ out' = [out EXCEPT !["factor"] = "info"]
                /\ view' = view
                /\ pc' = "heatmap" /\ error' = error
           ELSE LET sel == Choice(avail, ui.selected_factor)
                IN  IF IsDup(data, sel)
                    THEN /\ Raise("factor value_counts")
                         /\ out' = [out EXCEPT !["factor"] = "error"]
                         /\ view' = [view EXCEPT !.options = avail]
                    ELSE \E top \in TopK(FactorData(data, sel), TOP_FACTORS) :
                         LET bars == FactorRanking(FactorData(data, sel), top)
                         IN  /\ view' = [view EXCEPT !.options = avail,
                                                     !.ranking = bars]
                             /\ IF bars = {}
                                THEN /\ out' = [out EXCEPT !["factor"] = "info"]
                                     /\ pc' = "heatmap" /\ error' = error
                                ELSE IF /\ Len(avail) >= 2
                                        /\ \E c \in Range(avail) : IsDup(data, c)
                                THEN /\ out' = [out EXCEPT !["factor"] = "error"]
                                     /\ Raise("comparison value_counts")
                                ELSE /\ out' = [out EXCEPT !["factor"] = "chart"]
                                     /\ pc' = "heatmap" /\ error' = error
    /\ UNCHANGED <<loader, data, locals, ui, reruns>>

\* Lines 236-243: no else branch.
HeatmapPanel ==
    /\ pc = "heatmap"
    /\ out' = [out EXCEPT !["heatmap"] =
                  IF /\ HasCol(data, "datetime") /\ HasCol(data, "latitude")
                     /\ HasCol(data, "longitude")
                  THEN "chart" ELSE "nothing"]
    /\ pc' = "factor_hour"
    /\ UNCHANGED <<loader, data, locals, error, ui, view, reruns>>

\* Lines 250-251: the options of the second selectbox.
TimeFactorCols(t) ==
    SelectSeq(t.cols, LAMBDA c : \/ Contains(FactorName(1), c)
                                 \/ Contains(FactorName(2), c))

\* Line 262: fillna('Unknown') before the ranking.
FillUnknown(t, col) ==
    LET v == Column(t, col)
    IN  [r \in 1..Len(t.rows) |-> IF v[r] = NaN THEN "Unknown" ELSE v[r]]

\* Line 266: data[data[col].isin(top_factors)], on the cells as they are.
HourlyRows(t, col, top) ==
    LET j == CHOOSE k \in Positions(t.cols, col) : TRUE
    IN  SelectSeq(t.rows, LAMBDA row : row[j] # NaN /\ row[j] \in top)

\* Lines 248-280: no else branch for the outer conditions.
FactorHourPanel ==
    /\ pc = "factor_hour"
    /\ LET opts == TimeFactorCols(data)
       IN  IF ~(/\ HasCol(data, "datetime")
                /\ \E j \in 1..Len(data.cols) :
                      Contains("contributing_factor_vehicle_", data.cols[j]))
              \/ opts = <<>>
           THEN /\ out' = [out EXCEPT !["factor_hour"] = "nothing"]
                /\ data' = data /\ view' = view
                /\ pc' = "done" /\ error' = error
           ELSE LET sel == Choice(opts, ui.time_factor)
                    t1  == IF ~HasCol(data, "hour")
                           THEN SetColumn(data, "hour",
                                    [r \in 1..Len(data.rows) |->
                                        DtHour(Column(data, "datetime")[r])])
                           ELSE data
                IN  /\ data' = t1
                    /\ IF IsDup(t1, sel)
                       THEN /\ Raise("hourly value_counts")
                            /\ out' = [out EXCEPT !["factor_hour"] = "error"]
                            /\ view' = [view EXCEPT !.time_options = opts]
                       ELSE \E top \in TopK(FillUnknown(t1, sel),
                                            TOP_HOURLY_FACTORS) :
                            LET kept == IF top = {} THEN <<>>
                                        ELSE HourlyRows(t1, sel, top)
                            IN  /\ view' = [view EXCEPT !.time_options = opts,
                                                        !.top = top,
                                                        !.kept = kept]
                                /\ out' = [out EXCEPT !["factor_hour"] =
                                              IF kept # <<>> THEN "chart"
                                              ELSE "info"]
                                /\ pc' = "done" /\ error' = error
    /\ UNCHANGED <<loader, locals, ui, reruns>>

(***************************************************************************)
(* Reruns.                                                                 *)
(***************************************************************************)
\* The widget states one interaction with the rendered page leads to: one
\* widget moved, or the page run again as it is.
NextUi ==
    {ui}
    \cup {[ui EXCEPT !.min_injuries = m] :
            m \in IF out["map"] \in {"chart", "info"} THEN 0..view.map_max ELSE {}}
    \cup {[ui EXCEPT !.hour = h] :
            h \in IF out["time"] = "chart" THEN HourChoices ELSE {}}
    \cup {[ui EXCEPT !.selected_factor = i] : i \in 1..Len(view.options)}
    \cup {[ui EXCEPT !.time_factor = i] : i \in 1..Len(view.time_options)}

\* A widget is moved, or the page is reloaded: the script runs again.
Rerun ==
    /\ pc \in {"done", "failed"}
    /\ reruns < MaxReruns
    /\ reruns' = reruns + 1
    /\ pc' = "start"
    /\ ui' \in NextUi
    /\ UNCHANGED <<loader, data, locals, error, out, view>>

Next ==
    \/ CallLoadData
    \/ DetectDateTime
    \/ RenameLatLon
    \/ FindInjury
    \/ RenameFactors
    \/ DropCoerceReturn
    \/ MapPanel
    \/ TimePanel
    \/ FactorPanel
    \/ HeatmapPanel
    \/ FactorHourPanel
    \/ Rerun

Spec == Init /\ [][Next]_vars

(***************************************************************************)
(* Properties.                                                             *)
(***************************************************************************)
\* load_data has returned a table (it is in the cache).
Loaded == NROWS \in DOMAIN cache

\* The body of load_data has got past the factor renaming of lines 71-88.
FactorStepDone ==
    \/ pc \in {"coords", "map", "time", "factor", "heatmap", "factor_hour", "done"}
    \/ pc = "failed" /\ error \notin {"to_datetime", "to_numeric injured_persons"}

\* The body of load_data has got past the injury step of lines 57-69.
InjuryStepDone ==
    \/ pc = "factors"
    \/ FactorStepDone
    \/ pc = "failed" /\ error = "to_numeric injured_persons"

\* A source column with 'contributing_factor' that matches index 1 or 2.
IsFactorSource(c) ==
    Contains("contributing_factor", c) /\ VehicleIndex(c) \in {1, 2}

\* The columns a panel requires are all there.
Required(p) ==
    CASE p = "map"     -> MapMissing(data) = {}
      [] p = "time"    -> HasCol(data, "datetime")
      [] p = "factor"  -> HasCol(data, FactorName(1)) \/ HasCol(data, FactorName(2))
      [] p = "heatmap" -> /\ HasCol(data, "datetime") /\ HasCol(data, "latitude")
                          /\ HasCol(data, "longitude")
      [] p = "factor_hour" ->
            /\ HasCol(data, "datetime")
            /\ HasCol(data, FactorName(1)) \/ HasCol(data, FactorName(2))

\* C1: when a latitude and a longitude column are both detected, every row of
\* the table load_data returns has a numeric, non-null latitude and longitude.
C1_CoordinatesValid ==
    Loaded =>
        LET t == cache[NROWS]
        IN  HasCol(t, "latitude") /\ HasCol(t, "longitude") =>
                \A r \in 1..Len(t.rows), j \in 1..Len(t.cols) :
                    t.cols[j] \in {"latitude", "longitude"} =>
                        t.rows[r][j] # NaN /\ IsNumeric(t.rows[r][j])

\* C2: a panel that has been rendered while a column it requires is absent has
\* emitted an explanatory message.
C2_MissingColumnsMessage ==
    \A p \in Panels :
        out[p] # "pending" /\ ~Required(p) => out[p] \in {"info", "warning"}

\* C3: in the table load_data returns, at most one source column has been
\* renamed to each of latitude, longitude and injured_persons, and at most one
\* source column is the date source of datetime.
C3_OneSourcePerTarget ==
    Loaded =>
        LET t == cache[NROWS]
        IN  /\ \A target \in {"latitude", "longitude", "injured_persons"} :
                  Cardinality({j \in 1..Len(cleaned_columns) :
                                  /\ t.cols[j] = target
                                  /\ cleaned_columns[j] # target}) <= 1
            /\ HasCol(t, "datetime") /\ date_col # None =>
                  Cardinality(Positions(cleaned_columns, date_col)) <= 1

\* C4: the column renamed to injured_persons is the first with 'injured' and
\* 'person' if there is one, and otherwise the first with 'injured'.
C4_InjuryColumnFirstMatch ==
    InjuryStepDone =>
        LET both == {j \in 1..Len(cleaned_columns) :
                        /\ Contains("injured", cleaned_columns[j])
                        /\ Contains("person", cleaned_columns[j])}
            any  == {j \in 1..Len(cleaned_columns) :
                        Contains("injured", cleaned_columns[j])}
            First(S) == CHOOSE j \in S : \A k \in S : j <= k
        IN  /\ both # {} => injury_col = cleaned_columns[First(both)]
            /\ both = {} /\ any # {} => injury_col = cleaned_columns[First(any)]

\* C5: the body of load_data is executed at most once per row-limit key.
C5_BodyRunsOncePerKey == \A k \in DOMAIN body_runs : body_runs[k] <= 1

C7_NoUnknownInRanking ==
    \A bar \in view.ranking :
        MapChars(bar.factor, "lower") \notin {"unspecified", "unknown"}

\* C8: the rows the factor-by-hour panel keeps are exactly the rows whose value,
\* a null counted as "Unknown" as in the ranking, is one of the top 3.
C8_HourlyRowsMatchRanking ==
    pc = "done" /\ out["factor_hour"] \in {"chart", "info"} =>
        LET sel == Choice(view.time_options, ui.time_factor)
            j   == CHOOSE k \in Positions(data.cols, sel) : TRUE
        IN  view.kept =
                SelectSeq(data.rows,
                          LAMBDA row : (IF row[j] = NaN THEN "Unknown" ELSE row[j])
                                       \in view.top)

\* C9, as stated: of two distinct source columns that match the same vehicle
\* index, the earlier is not in the rename mapping and keeps its name.
C9_LaterOverwritesEarlier ==
    FactorStepDone =>
        \A j, k \in 1..Len(cleaned_columns) :
            /\ j < k
            /\ cleaned_columns[j] # cleaned_columns[k]
            /\ IsFactorSource(cleaned_columns[j])
            /\ IsFactorSource(cleaned_columns[k])
            /\ VehicleIndex(cleaned_columns[j]) = VehicleIndex(cleaned_columns[k])
            /\ cleaned_columns[j] # FactorName(VehicleIndex(cleaned_columns[j]))
            => /\ cleaned_columns[j] \notin DOMAIN factor_columns
               /\ data.cols[j] = cleaned_columns[j]

\* C9, amended: every source column that matches vehicle index 1 or 2 has its
\* own entry in the rename mapping and is renamed, so two that match the same
\* index are both renamed to contributing_factor_vehicle_i.
C9_EverySourceRenamed ==
    FactorStepDone =>
        \A j \in 1..Len(cleaned_columns) :
            IsFactorSource(cleaned_columns[j]) =>
                /\ cleaned_columns[j] \in DOMAIN factor_columns
                /\ factor_columns[cleaned_columns[j]]
                       = FactorName(VehicleIndex(cleaned_columns[j]))
                /\ data.cols[j] = FactorName(VehicleIndex(cleaned_columns[j]))

\* C9, witness: two distinct source columns of one index, the earlier renamed.
C9_Witness ==
    /\ FactorStepDone
    /\ \E j, k \in 1..Len(cleaned_columns) :
          /\ j < k
          /\ cleaned_columns[j] # cleaned_columns[k]
          /\ IsFactorSource(cleaned_columns[j])
          /\ IsFactorSource(cleaned_columns[k])
          /\ cleaned_columns[j] # FactorName(1)
          /\ data.cols[j] = FactorName(1) /\ data.cols[k] = FactorName(1)

\* C10: when the map panel is active on a table with rows, its slider is
\* created with the initial value inside its range, 0 <= 1 <= the maximum of
\* injured_persons.
C10_SliderValid ==
    MapMissing(data) = {} /\ data.rows # <<>> /\ out["map"] # "pending" =>
        /\ out["map"] \in {"chart", "info"}
        /\ 0 <= DEFAULT_MIN_INJURIES /\ DEFAULT_MIN_INJURIES <= view.map_max

=============================================================================
